---- MODULE Spec2Model ----
(***************************************************************************)
(* A model of r1-distill-rag/r1_smolagent_modified.py: the provider        *)
(* configuration (LLMConfig, get_api_config, get_model), the module-level  *)
(* startup sequence, and the rag_with_reasoner tool with the shared        *)
(* reasoning agent.                                                        *)
(*                                                                         *)
(* Text is a tuple of symbols.  A provider identifier is spelled one       *)
(* character per symbol, so that str.lower() is computed character by      *)
(* character.  Python's None is the one-symbol tuple <<"None">>, which is  *)
(* the spelling of no text (the text "None" is <<"N","o","n","e">>).       *)
(***************************************************************************)
EXTENDS Integers, Sequences, FiniteSets, TLC

VARIABLES
    env,             \* os.environ after load_dotenv(): variable name -> text or None
    given,           \* the provider argument LLMConfig was constructed with
    config,          \* the LLMConfig under call, or NoConfig
    api,             \* <<outcome of the get_api_config() call>>, or NoCall
    built,           \* <<outcome of the get_model() call>>, or NoCall
    pc,              \* position of the module-level code
    primary_config,  \* module global, line 87
    reason_config,   \* module global, line 92
    reasoning_model, \* module global, line 98
    tool_model,      \* module global, line 99
    reasoner,        \* module global, line 102: the shared CodeAgent
    primary_agent,   \* module global, line 144
    raised,          \* the exception that ended the process, or NoError
    launched,        \* GradioUI(primary_agent).launch() was called
    vectordb,        \* the Chroma store: for each query, its documents by rank
    users,           \* simultaneous UI sessions that may invoke the tool
    invoked,         \* number of rag_with_reasoner invocations begun
    inv,             \* per session: the frame of its rag_with_reasoner call
    finished         \* frames of the completed invocations, in order of return

vars == <<env, given, config, api, built, pc, primary_config, reason_config,
          reasoning_model, tool_model, reasoner, primary_agent, raised,
          launched, vectordb, users, invoked, inv, finished>>

unitVars == <<given, config, api, built>>
startVars == <<pc, primary_config, reason_config, reasoning_model, tool_model,
               primary_agent, raised, launched>>
toolVars == <<invoked, inv, finished>>

----------------------------------------------------------------------------
(* Bounds of the model.                                                    *)

\* At most this many provider variables are set in the environment of the
\* unit-level specification.
MaxEnvSet == 3

\* At most this many tool invocations are begun in one run.
MaxCalls == 2

----------------------------------------------------------------------------
(* Text, None and truthiness.                                              *)

None == <<"None">>

Truthy(x) == x # None /\ x # <<>>

UpperChars == <<"A","B","C","D","E","F","G","H","I","J","K","L","M",
                "N","O","P","Q","R","S","T","U","V","W","X","Y","Z">>
LowerChars == <<"a","b","c","d","e","f","g","h","i","j","k","l","m",
                "n","o","p","q","r","s","t","u","v","w","x","y","z">>

LowerChar(c) ==
    IF \E i \in DOMAIN UpperChars : UpperChars[i] = c
    THEN LowerChars[CHOOSE i \in DOMAIN UpperChars : UpperChars[i] = c]
    ELSE c

\* str.lower()
lower(s) == [i \in DOMAIN s |-> LowerChar(s[i])]

\* The provider names the code compares with.
Openai      == <<"o","p","e","n","a","i">>
Deepseek    == <<"d","e","e","p","s","e","e","k">>
Anthropic   == <<"a","n","t","h","r","o","p","i","c">>
Google      == <<"g","o","o","g","l","e">>
Groq        == <<"g","r","o","q">>
Ollama      == <<"o","l","l","a","m","a">>
Lmstudio    == <<"l","m","s","t","u","d","i","o">>
Huggingface == <<"h","u","g","g","i","n","g","f","a","c","e">>

\* Provider arguments tried: absent, empty, each known name, mixed-case
\* spellings, and names the code does not know.
ProviderInputs ==
    { None, <<>>,
      Openai, Deepseek, Anthropic, Google, Groq, Ollama, Lmstudio, Huggingface,
      <<"O","p","e","n","A","I">>,
      <<"O","L","L","A","M","A">>,
      <<"L","M","S","t","u","d","i","o">>,
      <<"H","u","g","g","i","n","g","F","a","c","e">>,
      <<"m","i","s","t","r","a","l">>,
      <<"A","z","u","r","e">>,
      <<"o","p","e","n","a","i"," ">>,
      <<"N","o","n","e">> }

ModelInputs == { None, <<"r","1">> }

----------------------------------------------------------------------------
(* The environment.                                                        *)

ApiVars ==
    { "OPENAI_API_BASE", "OPENAI_API_KEY", "OPENAI_ORG_ID",
      "DEEPSEEK_API_BASE", "DEEPSEEK_API_KEY",
      "ANTHROPIC_API_BASE", "ANTHROPIC_API_KEY",
      "GOOGLE_API_BASE", "GOOGLE_API_KEY",
      "GROQ_API_BASE", "GROQ_API_KEY",
      "OLLAMA_API_BASE", "OLLAMA_API_KEY",
      "LMSTUDIO_API_BASE", "LMSTUDIO_API_KEY",
      "HUGGINGFACE_API_BASE", "HUGGINGFACE_API_TOKEN" }

SelectorVars ==
    { "PRIMARY_AGENT_PROVIDER", "PRIMARY_AGENT_MODEL",
      "REASON_AGENT_PROVIDER", "REASON_AGENT_MODEL" }

EnvVars == ApiVars \cup SelectorVars

\* Variables that hold a secret or an account identifier.
CredentialVars ==
    { "OPENAI_API_KEY", "OPENAI_ORG_ID", "DEEPSEEK_API_KEY", "ANTHROPIC_API_KEY",
      "GOOGLE_API_KEY", "GROQ_API_KEY", "OLLAMA_API_KEY", "LMSTUDIO_API_KEY",
      "HUGGINGFACE_API_TOKEN" }

\* The text stored under a set provider variable: one per variable, so that
\* reading the wrong variable shows.
ValueOf(v) == <<"$", v>>

\* What a set variable may hold.  Only the organization is tested for
\* emptiness by the code (line 79), so only it is also tried empty.
ValuesOf(v) ==
    IF v = "OPENAI_ORG_ID" THEN { <<>>, ValueOf(v) } ELSE { ValueOf(v) }

Unset == [v \in EnvVars |-> None]

\* os.getenv(v)
getenv(e, v) == e[v]

RECURSIVE EnvsUpTo(_)
EnvsUpTo(n) ==
    IF n = 0 THEN { Unset }
    ELSE LET prev == EnvsUpTo(n - 1)
         IN  prev \cup UNION { { [e EXCEPT ![v] = x] : x \in ValuesOf(v) } :
                                  e \in prev, v \in ApiVars }

\* Environments of the unit-level specification.
UnitEnvs == EnvsUpTo(MaxEnvSet)

----------------------------------------------------------------------------
(* LLMConfig (lines 10-66).                                                *)

NoConfig == [provider |-> None, model |-> None, made |-> FALSE]

\* A variant of LLMConfig.__init__ whose default provider is another one.
LLMConfig_DefaultOpenai(provider, model) ==
    [ provider |-> lower(IF Truthy(provider) THEN provider ELSE Openai),
      model    |-> model,
      made     |-> TRUE ]

\* LLMConfig.__init__ (lines 11-13)
LLMConfig(provider, model) ==
    [ provider |-> lower(IF Truthy(provider) THEN provider ELSE Huggingface),
      model    |-> model,
      made     |-> TRUE ]

NoError == "none"
UnsupportedProvider == "ValueError: Unsupported provider"

NoTriple == <<>>

\* A return of get_api_config: the triple and the variables read for it.
Returns(triple, reads) ==
    [ raised |-> NoError, value |-> triple, reads |-> reads ]

\* A raise: no value is returned.
Raises(err, reads) ==
    [ raised |-> err, value |-> NoTriple, reads |-> reads ]

\* A variant of get_api_config whose deepseek branch reads the key of another
\* provider.
get_api_config_WrongKeyVar(cfg, e) ==
    CASE cfg.provider = Openai ->
           Returns(<<getenv(e, "OPENAI_API_BASE"), getenv(e, "OPENAI_API_KEY"),
                     getenv(e, "OPENAI_ORG_ID")>>,
                   {"OPENAI_API_BASE", "OPENAI_API_KEY", "OPENAI_ORG_ID"})
      [] cfg.provider = Deepseek ->
           Returns(<<getenv(e, "DEEPSEEK_API_BASE"), getenv(e, "OPENAI_API_KEY"), None>>,
                   {"DEEPSEEK_API_BASE", "OPENAI_API_KEY"})
      [] cfg.provider = Anthropic ->
           Returns(<<getenv(e, "ANTHROPIC_API_BASE"), getenv(e, "ANTHROPIC_API_KEY"), None>>,
                   {"ANTHROPIC_API_BASE", "ANTHROPIC_API_KEY"})
      [] cfg.provider = Google ->
           Returns(<<getenv(e, "GOOGLE_API_BASE"), getenv(e, "GOOGLE_API_KEY"), None>>,
                   {"GOOGLE_API_BASE", "GOOGLE_API_KEY"})
      [] cfg.provider = Groq ->
           Returns(<<getenv(e, "GROQ_API_BASE"), getenv(e, "GROQ_API_KEY"), None>>,
                   {"GROQ_API_BASE", "GROQ_API_KEY"})
      [] cfg.provider = Ollama ->
           Returns(<<getenv(e, "OLLAMA_API_BASE"), Ollama, None>>,
                   {"OLLAMA_API_BASE"})
      [] cfg.provider = Lmstudio ->
           Returns(<<getenv(e, "LMSTUDIO_API_BASE"), Lmstudio, None>>,
                   {"LMSTUDIO_API_BASE"})
      [] cfg.provider = Huggingface ->
           Returns(<<getenv(e, "HUGGINGFACE_API_BASE"), getenv(e, "HUGGINGFACE_API_TOKEN"),
                     None>>,
                   {"HUGGINGFACE_API_BASE", "HUGGINGFACE_API_TOKEN"})
      [] OTHER ->
           Raises(UnsupportedProvider, {})

\* A variant of get_api_config whose ollama branch reads its key from the
\* environment.
get_api_config_OllamaKeyFromEnv(cfg, e) ==
    CASE cfg.provider = Openai ->
           Returns(<<getenv(e, "OPENAI_API_BASE"), getenv(e, "OPENAI_API_KEY"),
                     getenv(e, "OPENAI_ORG_ID")>>,
                   {"OPENAI_API_BASE", "OPENAI_API_KEY", "OPENAI_ORG_ID"})
      [] cfg.provider = Deepseek ->
           Returns(<<getenv(e, "DEEPSEEK_API_BASE"), getenv(e, "DEEPSEEK_API_KEY"), None>>,
                   {"DEEPSEEK_API_BASE", "DEEPSEEK_API_KEY"})
      [] cfg.provider = Anthropic ->
           Returns(<<getenv(e, "ANTHROPIC_API_BASE"), getenv(e, "ANTHROPIC_API_KEY"), None>>,
                   {"ANTHROPIC_API_BASE", "ANTHROPIC_API_KEY"})
      [] cfg.provider = Google ->
           Returns(<<getenv(e, "GOOGLE_API_BASE"), getenv(e, "GOOGLE_API_KEY"), None>>,
                   {"GOOGLE_API_BASE", "GOOGLE_API_KEY"})
      [] cfg.provider = Groq ->
           Returns(<<getenv(e, "GROQ_API_BASE"), getenv(e, "GROQ_API_KEY"), None>>,
                   {"GROQ_API_BASE", "GROQ_API_KEY"})
      [] cfg.provider = Ollama ->
           Returns(<<getenv(e, "OLLAMA_API_BASE"), getenv(e, "OLLAMA_API_KEY"), None>>,
                   {"OLLAMA_API_BASE", "OLLAMA_API_KEY"})
      [] cfg.provider = Lmstudio ->
           Returns(<<getenv(e, "LMSTUDIO_API_BASE"), Lmstudio, None>>,
                   {"LMSTUDIO_API_BASE"})
      [] cfg.provider = Huggingface ->
           Returns(<<getenv(e, "HUGGINGFACE_API_BASE"), getenv(e, "HUGGINGFACE_API_TOKEN"),
                     None>>,
                   {"HUGGINGFACE_API_BASE", "HUGGINGFACE_API_TOKEN"})
      [] OTHER ->
           Raises(UnsupportedProvider, {})

\* LLMConfig.get_api_config (lines 15-66), on environment e
get_api_config(cfg, e) ==
    CASE cfg.provider = Openai ->
           Returns(<<getenv(e, "OPENAI_API_BASE"), getenv(e, "OPENAI_API_KEY"),
                     getenv(e, "OPENAI_ORG_ID")>>,
                   {"OPENAI_API_BASE", "OPENAI_API_KEY", "OPENAI_ORG_ID"})
      [] cfg.provider = Deepseek ->
           Returns(<<getenv(e, "DEEPSEEK_API_BASE"), getenv(e, "DEEPSEEK_API_KEY"), None>>,
                   {"DEEPSEEK_API_BASE", "DEEPSEEK_API_KEY"})
      [] cfg.provider = Anthropic ->
           Returns(<<getenv(e, "ANTHROPIC_API_BASE"), getenv(e, "ANTHROPIC_API_KEY"), None>>,
                   {"ANTHROPIC_API_BASE", "ANTHROPIC_API_KEY"})
      [] cfg.provider = Google ->
           Returns(<<getenv(e, "GOOGLE_API_BASE"), getenv(e, "GOOGLE_API_KEY"), None>>,
                   {"GOOGLE_API_BASE", "GOOGLE_API_KEY"})
      [] cfg.provider = Groq ->
           Returns(<<getenv(e, "GROQ_API_BASE"), getenv(e, "GROQ_API_KEY"), None>>,
                   {"GROQ_API_BASE", "GROQ_API_KEY"})
      [] cfg.provider = Ollama ->
           Returns(<<getenv(e, "OLLAMA_API_BASE"), Ollama, None>>,
                   {"OLLAMA_API_BASE"})
      [] cfg.provider = Lmstudio ->
           Returns(<<getenv(e, "LMSTUDIO_API_BASE"), Lmstudio, None>>,
                   {"LMSTUDIO_API_BASE"})
      [] cfg.provider = Huggingface ->
           Returns(<<getenv(e, "HUGGINGFACE_API_BASE"), getenv(e, "HUGGINGFACE_API_TOKEN"),
                     None>>,
                   {"HUGGINGFACE_API_BASE", "HUGGINGFACE_API_TOKEN"})
      [] OTHER ->
           Raises(UnsupportedProvider, {})

----------------------------------------------------------------------------
(* get_model (lines 68-84).                                                *)

NoHandle == [ctor |-> "none", kwargs |-> <<>>]

\* HfApiModel(model_id=..., token=..., model_kwargs={"model": ...}), lines 71-75
HfApiModel(model_id, token, model_kwargs) ==
    [ ctor   |-> "HfApiModel",
      kwargs |-> ("model_id" :> model_id) @@ ("token" :> token)
                 @@ ("model_kwargs" :> model_kwargs) ]

\* OpenAIServerModel(model_id=..., **model_kwargs), lines 81-84
OpenAIServerModel(model_id, model_kwargs) ==
    [ ctor   |-> "OpenAIServerModel",
      kwargs |-> ("model_id" :> model_id) @@ model_kwargs ]

Built(handle, reads) ==
    [ raised |-> NoError, handle |-> handle, reads |-> reads ]

Failed(err, reads) ==
    [ raised |-> err, handle |-> NoHandle, reads |-> reads ]

\* A variant of get_model that passes the organization whatever it is.
get_model_AlwaysOrganization(cfg, e) ==
    IF cfg.provider = Huggingface
    THEN LET r == get_api_config(cfg, e)
         IN  IF r.raised # NoError
             THEN Failed(r.raised, r.reads)
             ELSE Built(HfApiModel(cfg.model, r.value[2], ("model" :> cfg.model)),
                        r.reads)
    ELSE LET r       == get_api_config(cfg, e)
             api_base == r.value[1]
             api_key  == r.value[2]
             org_id   == r.value[3]
             base_kwargs == ("api_base" :> api_base) @@ ("api_key" :> api_key)
             model_kwargs ==
                 base_kwargs @@ ("organization" :> org_id)
         IN  IF r.raised # NoError
             THEN Failed(r.raised, r.reads)
             ELSE Built(OpenAIServerModel(cfg.model, model_kwargs), r.reads)

\* A variant of get_model that refuses a configuration without a key.
get_model_RequiresKey(cfg, e) ==
    IF cfg.provider = Huggingface
    THEN LET r == get_api_config(cfg, e)
         IN  IF r.raised # NoError
             THEN Failed(r.raised, r.reads)
             ELSE Built(HfApiModel(cfg.model, r.value[2], ("model" :> cfg.model)),
                        r.reads)
    ELSE LET r       == get_api_config(cfg, e)
             api_base == r.value[1]
             api_key  == r.value[2]
             org_id   == r.value[3]
             base_kwargs == ("api_base" :> api_base) @@ ("api_key" :> api_key)
             model_kwargs ==
                 IF Truthy(org_id)
                 THEN base_kwargs @@ ("organization" :> org_id)
                 ELSE base_kwargs
         IN  IF r.raised # NoError
             THEN Failed(r.raised, r.reads)
             ELSE IF api_key = None
             THEN Failed("ValueError: no api key", r.reads)
             ELSE Built(OpenAIServerModel(cfg.model, model_kwargs), r.reads)

\* get_model (lines 68-84), on environment e
get_model(cfg, e) ==
    IF cfg.provider = Huggingface
    THEN LET r == get_api_config(cfg, e)
         IN  IF r.raised # NoError
             THEN Failed(r.raised, r.reads)
             ELSE Built(HfApiModel(cfg.model, r.value[2], ("model" :> cfg.model)),
                        r.reads)
    ELSE LET r       == get_api_config(cfg, e)
             api_base == r.value[1]
             api_key  == r.value[2]
             org_id   == r.value[3]
             base_kwargs == ("api_base" :> api_base) @@ ("api_key" :> api_key)
             model_kwargs ==
                 IF Truthy(org_id)
                 THEN base_kwargs @@ ("organization" :> org_id)
                 ELSE base_kwargs
         IN  IF r.raised # NoError
             THEN Failed(r.raised, r.reads)
             ELSE Built(OpenAIServerModel(cfg.model, model_kwargs), r.reads)

\* No call yet: api and built hold the outcome of the call as their one element.
NoCall == <<>>

----------------------------------------------------------------------------
(* Unit-level calls: a configuration is constructed from arguments and     *)
(* get_api_config / get_model are called on it.                            *)

\* LLMConfig(provider=p, model=m)
NewConfig ==
    /\ ~config.made
    /\ \E p \in ProviderInputs, m \in ModelInputs :
          /\ given' = p
          /\ config' = LLMConfig(p, m)
    /\ UNCHANGED <<env, api, built, startVars, reasoner, vectordb, users, toolVars>>

\* config.get_api_config()
CallGetApiConfig ==
    /\ config.made
    /\ api = NoCall
    /\ api' = <<get_api_config(config, env)>>
    /\ UNCHANGED <<env, given, config, built, startVars, reasoner, vectordb, users,
                   toolVars>>

\* get_model(config)
CallGetModel ==
    /\ config.made
    /\ built = NoCall
    /\ built' = <<get_model(config, env)>>
    /\ UNCHANGED <<env, given, config, api, startVars, reasoner, vectordb, users,
                   toolVars>>

NextUnit == NewConfig \/ CallGetApiConfig \/ CallGetModel

----------------------------------------------------------------------------
(* The agents and the vector store.                                        *)

\* max_steps of the reasoning agent (line 102) and of the primary agent
\* (line 144); k of the similarity search (line 123).
ReasonerMaxSteps == 2
PrimaryMaxSteps == 3
K == 3

NoAgent ==
    [ made |-> FALSE, class |-> "none", tools |-> {}, model |-> NoHandle,
      max_steps |-> 0, memory |-> <<>> ]

\* CodeAgent(tools=[], model=..., add_base_tools=False, max_steps=2), line 102
CodeAgent(model, max_steps) ==
    [ made |-> TRUE, class |-> "CodeAgent", tools |-> {}, model |-> model,
      max_steps |-> max_steps, memory |-> <<>> ]

\* ToolCallingAgent(tools=[rag_with_reasoner], model=..., max_steps=3), line 144
ToolCallingAgent(model, max_steps) ==
    [ made |-> TRUE, class |-> "ToolCallingAgent", tools |-> {"rag_with_reasoner"},
      model |-> model, max_steps |-> max_steps, memory |-> <<>> ]

\* Documents of the store, by their page_content.
Doc1 == [page_content |-> <<"a">>]
Doc2 == [page_content |-> <<"b", "\n", "c">>]
Doc3 == [page_content |-> <<>>]
Doc4 == [page_content |-> <<"d", "d">>]
Docs == { Doc1, Doc2, Doc3, Doc4 }

Query1 == <<"q", "1">>
Query2 == <<"q", "2">>
Queries == { Query1, Query2 }

\* The orders in which a query can rank the documents S.
Rankings(S) ==
    { f \in [1..Cardinality(S) -> S] : \A i, j \in DOMAIN f : f[i] = f[j] => i = j }

Reverse(r) == [i \in DOMAIN r |-> r[Len(r) + 1 - i]]

\* The stores: some documents, ranked by one query in some order and by the
\* other in the opposite order.
VectorDbs ==
    UNION { { (Query1 :> r) @@ (Query2 :> Reverse(r)) : r \in Rankings(S) } :
            S \in SUBSET Docs }

\* A store that ranks its documents alike for every query.
DbOf(ranking) == [q \in Queries |-> ranking]

Min(a, b) == IF a < b THEN a ELSE b

\* vectordb.similarity_search(query, k=k), line 123
similarity_search(db, query, k) == SubSeq(db[query], 1, Min(k, Len(db[query])))

\* sep.join(parts)
RECURSIVE join(_, _)
join(sep, parts) ==
    IF parts = <<>> THEN <<>>
    ELSE IF Len(parts) = 1 THEN parts[1]
    ELSE parts[1] \o sep \o join(sep, Tail(parts))

BlankLine == <<"\n", "\n">>

\* A variant of line 126 that joins with a line break instead of a blank line.
Context_SingleLineBreak(docs) ==
    join(<<"\n">>, [i \in DOMAIN docs |-> docs[i].page_content])

\* line 126
Context(docs) == join(BlankLine, [i \in DOMAIN docs |-> docs[i].page_content])

PromptHead ==
    <<"Based on the following context, answer the user's question. Be concise and specific.\n    If there isn't sufficient information, give as your answer a better query to perform RAG with.\n    \nContext:\n">>
PromptQuestion == <<"\n", "\n", "Question: ">>
PromptAnswer == <<"\n", "\n", "Answer:">>

\* The f-string of lines 129-137
Prompt(context, user_query) ==
    PromptHead \o context \o PromptQuestion \o user_query \o PromptAnswer

\* A variant of line 140 that lets run() start from an empty memory.
RunReset_True == TRUE

\* The reset argument of reasoner.run, line 140
RunReset == FALSE

----------------------------------------------------------------------------
(* The reasoning agent's run: the task is added to the agent's memory,     *)
(* then the model is called on the whole memory once per step, until a     *)
(* step gives the final answer or max_steps steps are used; then the model *)
(* is asked once more for a final answer.                                  *)

TaskEntry(id, task) == [kind |-> "task", inv |-> id, text |-> task, saw |-> <<>>]
ActionEntry(id, saw) == [kind |-> "action", inv |-> id, text |-> <<>>, saw |-> saw]

IsTask(e) == e.kind = "task"

\* The tasks the model is shown when called on memory.
Messages(memory) ==
    LET tasks == SelectSeq(memory, IsTask)
    IN  [i \in DOMAIN tasks |-> tasks[i].text]

\* agent.run(task, reset=reset), up to the first step
AgentRunBegin(agent, id, task, reset) ==
    [agent EXCEPT !.memory = Append(IF reset THEN <<>> ELSE @, TaskEntry(id, task))]

\* one step of the run: the model is called on the memory, the step is kept
AgentStep(agent, id) ==
    [agent EXCEPT !.memory = Append(@, ActionEntry(id, Messages(@)))]

----------------------------------------------------------------------------
(* rag_with_reasoner (lines 112-141), one frame per session.               *)

Sessions == { 1, 2 }

Idle ==
    [ at |-> "idle", id |-> 0, user_query |-> <<>>, docs |-> <<>>, context |-> <<>>,
      prompt |-> <<>>, response |-> <<>>, searches |-> 0, runs |-> 0, steps |-> 0 ]

\* The primary agent calls the tool with a query.
Invoke(t) ==
    /\ launched
    /\ primary_agent.made
    /\ t <= users
    /\ inv[t].at = "idle"
    /\ invoked < MaxCalls
    /\ \E q \in Queries :
          inv' = [inv EXCEPT ![t] = [Idle EXCEPT !.at = "search", !.id = invoked + 1,
                                                  !.user_query = q]]
    /\ invoked' = invoked + 1
    /\ UNCHANGED <<env, unitVars, startVars, reasoner, vectordb, users, finished>>

\* A variant of lines 123-141 that returns at once when nothing was found.
Retrieve_ShortCircuit(t) ==
    /\ inv[t].at = "search"
    /\ LET docs == similarity_search(vectordb, inv[t].user_query, K)
           context == Context(docs)
       IN  inv' = [inv EXCEPT ![t].docs = docs,
                              ![t].searches = @ + 1,
                              ![t].context = context,
                              ![t].prompt = Prompt(context, inv[t].user_query),
                              ![t].at = IF docs = <<>> THEN "return" ELSE "run"]
    /\ UNCHANGED <<env, unitVars, startVars, reasoner, vectordb, users, invoked, finished>>

\* lines 123-137: the search, the context and the prompt, all local to the call
Retrieve(t) ==
    /\ inv[t].at = "search"
    /\ LET docs == similarity_search(vectordb, inv[t].user_query, K)
           context == Context(docs)
       IN  inv' = [inv EXCEPT ![t].docs = docs,
                              ![t].searches = @ + 1,
                              ![t].context = context,
                              ![t].prompt = Prompt(context, inv[t].user_query),
                              ![t].at = "run"]
    /\ UNCHANGED <<env, unitVars, startVars, reasoner, vectordb, users, invoked, finished>>

\* A variant of line 140 that enters run() only when no other run is under way.
RunBegin_Locked(t) ==
    /\ inv[t].at = "run"
    /\ \A u \in Sessions : inv[u].at # "step"
    /\ reasoner' = AgentRunBegin(reasoner, inv[t].id, inv[t].prompt, RunReset)
    /\ inv' = [inv EXCEPT ![t].runs = @ + 1, ![t].at = "step"]
    /\ UNCHANGED <<env, unitVars, startVars, vectordb, users, invoked, finished>>

\* line 140: reasoner.run(prompt, reset=False) is entered
RunBegin(t) ==
    /\ inv[t].at = "run"
    /\ reasoner' = AgentRunBegin(reasoner, inv[t].id, inv[t].prompt, RunReset)
    /\ inv' = [inv EXCEPT ![t].runs = @ + 1, ![t].at = "step"]
    /\ UNCHANGED <<env, unitVars, startVars, vectordb, users, invoked, finished>>

\* line 140: a step of the run; it gives the final answer or not
RunStep(t) ==
    /\ inv[t].at = "step"
    /\ inv[t].steps < reasoner.max_steps
    /\ reasoner' = AgentStep(reasoner, inv[t].id)
    /\ \E final \in BOOLEAN :
          inv' = [inv EXCEPT ![t].steps = @ + 1,
                             ![t].response = IF final THEN Messages(reasoner.memory) ELSE @,
                             ![t].at = IF final THEN "return" ELSE "step"]
    /\ UNCHANGED <<env, unitVars, startVars, vectordb, users, invoked, finished>>

\* line 140: max_steps steps gave no answer; the model is asked for one
RunGiveUp(t) ==
    /\ inv[t].at = "step"
    /\ inv[t].steps >= reasoner.max_steps
    /\ reasoner' = AgentStep(reasoner, inv[t].id)
    /\ inv' = [inv EXCEPT ![t].response = Messages(reasoner.memory), ![t].at = "return"]
    /\ UNCHANGED <<env, unitVars, startVars, vectordb, users, invoked, finished>>

\* line 141
Return(t) ==
    /\ inv[t].at = "return"
    /\ finished' = Append(finished, [inv[t] EXCEPT !.at = "done"])
    /\ inv' = [inv EXCEPT ![t] = Idle]
    /\ UNCHANGED <<env, unitVars, startVars, reasoner, vectordb, users, invoked>>

NextTool ==
    \E t \in Sessions :
        \/ Invoke(t)
        \/ Retrieve(t)
        \/ RunBegin(t)
        \/ RunStep(t)
        \/ RunGiveUp(t)
        \/ Return(t)

----------------------------------------------------------------------------
(* The module-level code (lines 86-151), one action per statement.  An     *)
(* exception that no statement catches ends the process.                   *)

\* lines 87-90
MakePrimaryConfig ==
    /\ pc = "primary_config"
    /\ primary_config' = LLMConfig(getenv(env, "PRIMARY_AGENT_PROVIDER"),
                                       getenv(env, "PRIMARY_AGENT_MODEL"))
    /\ pc' = "reason_config"
    /\ UNCHANGED <<env, unitVars, reason_config, reasoning_model, tool_model, reasoner,
                   primary_agent, raised, launched, vectordb, users, toolVars>>

\* lines 92-95
MakeReasonConfig ==
    /\ pc = "reason_config"
    /\ reason_config' = LLMConfig(getenv(env, "REASON_AGENT_PROVIDER"),
                                      getenv(env, "REASON_AGENT_MODEL"))
    /\ pc' = "reasoning_model"
    /\ UNCHANGED <<env, unitVars, primary_config, reasoning_model, tool_model, reasoner,
                   primary_agent, raised, launched, vectordb, users, toolVars>>

\* line 98
MakeReasoningModel ==
    /\ pc = "reasoning_model"
    /\ LET r == get_model(reason_config, env)
       IN  IF r.raised # NoError
           THEN /\ raised' = r.raised
                /\ pc' = "aborted"
                /\ UNCHANGED reasoning_model
           ELSE /\ reasoning_model' = r.handle
                /\ pc' = "tool_model"
                /\ UNCHANGED raised
    /\ UNCHANGED <<env, unitVars, primary_config, reason_config, tool_model, reasoner,
                   primary_agent, launched, vectordb, users, toolVars>>

\* A variant of line 99 that puts the failure off: the model is left unbuilt
\* and the module goes on.
MakeToolModel_Deferred ==
    /\ pc = "tool_model"
    /\ LET r == get_model(primary_config, env)
       IN  tool_model' = r.handle
    /\ pc' = "reasoner"
    /\ UNCHANGED <<env, unitVars, primary_config, reason_config, reasoning_model, reasoner,
                   primary_agent, raised, launched, vectordb, users, toolVars>>

\* line 99
MakeToolModel ==
    /\ pc = "tool_model"
    /\ LET r == get_model(primary_config, env)
       IN  IF r.raised # NoError
           THEN /\ raised' = r.raised
                /\ pc' = "aborted"
                /\ UNCHANGED tool_model
           ELSE /\ tool_model' = r.handle
                /\ pc' = "reasoner"
                /\ UNCHANGED raised
    /\ UNCHANGED <<env, unitVars, primary_config, reason_config, reasoning_model, reasoner,
                   primary_agent, launched, vectordb, users, toolVars>>

\* line 102
MakeReasoner ==
    /\ pc = "reasoner"
    /\ reasoner' = CodeAgent(reasoning_model, ReasonerMaxSteps)
    /\ pc' = "vectordb"
    /\ UNCHANGED <<env, unitVars, primary_config, reason_config, reasoning_model,
                   tool_model, primary_agent, raised, launched, vectordb, users, toolVars>>

\* lines 105-110: the embeddings and the store are opened
OpenVectorDb ==
    /\ pc = "vectordb"
    /\ pc' = "primary_agent"
    /\ UNCHANGED <<env, unitVars, primary_config, reason_config, reasoning_model,
                   tool_model, reasoner, primary_agent, raised, launched, vectordb, users,
                   toolVars>>

\* line 144
MakePrimaryAgent ==
    /\ pc = "primary_agent"
    /\ primary_agent' = ToolCallingAgent(tool_model, PrimaryMaxSteps)
    /\ pc' = "main"
    /\ UNCHANGED <<env, unitVars, primary_config, reason_config, reasoning_model,
                   tool_model, reasoner, raised, launched, vectordb, users, toolVars>>

\* lines 147-151: main() launches the UI on the primary agent
main ==
    /\ pc = "main"
    /\ launched' = TRUE
    /\ pc' = "serving"
    /\ UNCHANGED <<env, unitVars, primary_config, reason_config, reasoning_model,
                   tool_model, reasoner, primary_agent, raised, vectordb, users, toolVars>>

NextStartup ==
    \/ MakePrimaryConfig
    \/ MakeReasonConfig
    \/ MakeReasoningModel
    \/ MakeToolModel
    \/ MakeReasoner
    \/ OpenVectorDb
    \/ MakePrimaryAgent
    \/ main

----------------------------------------------------------------------------
(* Initial states and specifications.                                      *)

\* The process before the module-level code runs, in environment e, with
\* store db and n simultaneous sessions.
Fresh(e, db, n) ==
    /\ env = e
    /\ given = None
    /\ config = NoConfig
    /\ api = NoCall
    /\ built = NoCall
    /\ pc = "primary_config"
    /\ primary_config = NoConfig
    /\ reason_config = NoConfig
    /\ reasoning_model = NoHandle
    /\ tool_model = NoHandle
    /\ reasoner = NoAgent
    /\ primary_agent = NoAgent
    /\ raised = NoError
    /\ launched = FALSE
    /\ vectordb = db
    /\ users = n
    /\ invoked = 0
    /\ inv = [t \in Sessions |-> Idle]
    /\ finished = <<>>

\* The process once the module-level code has run to the launch with every
\* variable of the environment unset: both providers are the default one.
Serving(db, n) ==
    /\ env = Unset
    /\ given = None
    /\ config = NoConfig
    /\ api = NoCall
    /\ built = NoCall
    /\ pc = "serving"
    /\ primary_config = LLMConfig(None, None)
    /\ reason_config = LLMConfig(None, None)
    /\ reasoning_model = get_model(LLMConfig(None, None), Unset).handle
    /\ tool_model = get_model(LLMConfig(None, None), Unset).handle
    /\ reasoner = CodeAgent(get_model(LLMConfig(None, None), Unset).handle,
                            ReasonerMaxSteps)
    /\ primary_agent = ToolCallingAgent(get_model(LLMConfig(None, None), Unset).handle,
                                        PrimaryMaxSteps)
    /\ raised = NoError
    /\ launched = TRUE
    /\ vectordb = db
    /\ users = n
    /\ invoked = 0
    /\ inv = [t \in Sessions |-> Idle]
    /\ finished = <<>>

\* Environments of the startup: the two provider selectors.
StartEnvs ==
    { [Unset EXCEPT !["PRIMARY_AGENT_PROVIDER"] = p,
                    !["REASON_AGENT_PROVIDER"] = r] :
        p \in ProviderInputs, r \in ProviderInputs }

\* The whole program with one user: startup, then tool invocations.
Init == \E e \in StartEnvs : Fresh(e, DbOf(<<Doc2, Doc1>>), 1)
Next == NextStartup \/ NextTool
Spec == Init /\ [][Next]_vars

\* Calls of LLMConfig, get_api_config and get_model on their own.
InitUnit == \E e \in UnitEnvs : Fresh(e, DbOf(<<>>), 1)
SpecUnit == InitUnit /\ [][NextUnit]_vars

\* The tool with one user, over every store.
InitServe == \E db \in VectorDbs : Serving(db, 1)
SpecServe == InitServe /\ [][NextTool]_vars

\* The tool with two simultaneous users.
InitConc == Serving(DbOf(<<Doc1>>), 2)
SpecConc == InitConc /\ [][NextTool]_vars

----------------------------------------------------------------------------
(* Properties of the provider configuration, checked under SpecUnit.       *)

\* The closed set of providers.
Providers ==
    { Openai, Deepseek, Anthropic, Google, Groq, Ollama, Lmstudio, Huggingface }

SelfHosted == { Ollama, Lmstudio }

\* The variables named after a provider.
BaseVarOf(p) ==
    CASE p = Openai -> "OPENAI_API_BASE"
      [] p = Deepseek -> "DEEPSEEK_API_BASE"
      [] p = Anthropic -> "ANTHROPIC_API_BASE"
      [] p = Google -> "GOOGLE_API_BASE"
      [] p = Groq -> "GROQ_API_BASE"
      [] p = Ollama -> "OLLAMA_API_BASE"
      [] p = Lmstudio -> "LMSTUDIO_API_BASE"
      [] p = Huggingface -> "HUGGINGFACE_API_BASE"

KeyVarOf(p) ==
    CASE p = Openai -> "OPENAI_API_KEY"
      [] p = Deepseek -> "DEEPSEEK_API_KEY"
      [] p = Anthropic -> "ANTHROPIC_API_KEY"
      [] p = Google -> "GOOGLE_API_KEY"
      [] p = Groq -> "GROQ_API_KEY"
      [] p = Ollama -> "OLLAMA_API_KEY"
      [] p = Lmstudio -> "LMSTUDIO_API_KEY"
      [] p = Huggingface -> "HUGGINGFACE_API_TOKEN"

OrgOf(p, e) == IF p = Openai THEN e["OPENAI_ORG_ID"] ELSE None

\* C1: get_api_config on a configuration constructed with a provider that,
\* lower-cased, is outside the closed set raises the unsupported-provider
\* error and returns no triple; constructed with None or the empty text, it
\* gives what it gives for "huggingface": the huggingface endpoint and token
\* of the environment, and no organization.
C1_UnsupportedRaises_AbsentIsHuggingface ==
    api # NoCall =>
      /\ (Truthy(given) /\ lower(given) \notin Providers) =>
            /\ api[1].raised = UnsupportedProvider
            /\ api[1].value = NoTriple
      /\ ~Truthy(given) =>
            /\ api[1] = get_api_config(LLMConfig(Huggingface, config.model), env)
            /\ api[1].raised = NoError
            /\ api[1].value = <<env["HUGGINGFACE_API_BASE"],
                                env["HUGGINGFACE_API_TOKEN"], None>>

\* C1's case: no provider was given, the huggingface token is set, and it is
\* the credential returned.
C1_Witness ==
    /\ api # NoCall
    /\ given = None
    /\ env["HUGGINGFACE_API_TOKEN"] # None
    /\ api[1].raised = NoError
    /\ api[1].value[2] = env["HUGGINGFACE_API_TOKEN"]

\* C2 as stated: for every provider of the closed set the endpoint and the
\* credential returned are the values of the provider's own variables, and
\* the organization is None except for openai (OPENAI_ORG_ID).
C2_Original_AllFromEnvironment ==
    (api # NoCall /\ config.provider \in Providers) =>
      /\ api[1].raised = NoError
      /\ api[1].value = <<env[BaseVarOf(config.provider)],
                          env[KeyVarOf(config.provider)],
                          OrgOf(config.provider, env)>>

\* C2 amended: as stated for the six providers that are not self-hosted; for
\* ollama and lmstudio the endpoint is the value of the provider's variable
\* and the credential is the provider's own name, whatever the environment.
C2_Amended_TripleOfProvider ==
    (api # NoCall /\ config.provider \in Providers) =>
      /\ api[1].raised = NoError
      /\ api[1].value = <<env[BaseVarOf(config.provider)],
                          IF config.provider \in SelfHosted
                          THEN config.provider
                          ELSE env[KeyVarOf(config.provider)],
                          OrgOf(config.provider, env)>>

\* C2's case: deepseek with its endpoint and key set.
C2_Witness ==
    /\ api # NoCall
    /\ config.provider = Deepseek
    /\ env["DEEPSEEK_API_BASE"] # None
    /\ env["DEEPSEEK_API_KEY"] # None
    /\ api[1].value[2] = env["DEEPSEEK_API_KEY"]

\* The environments that differ from e in one credential variable.
CredentialVariants(e) ==
    UNION { { [e EXCEPT ![v] = x] : x \in { None } \cup ValuesOf(v) } :
            v \in CredentialVars }

\* C3: for ollama and lmstudio the credential that get_api_config returns and
\* get_model passes on is the provider's fixed placeholder; no credential
\* variable is read; and changing a credential variable of the environment
\* changes neither the triple nor the model constructed.
C3_SelfHostedPlaceholder ==
    (config.made /\ config.provider \in SelfHosted) =>
      /\ api # NoCall =>
            /\ api[1].raised = NoError
            /\ api[1].value[2] = config.provider
            /\ api[1].reads \cap CredentialVars = {}
            /\ \A e2 \in CredentialVariants(env) : get_api_config(config, e2) = api[1]
      /\ built # NoCall =>
            /\ built[1].raised = NoError
            /\ built[1].handle.kwargs["api_key"] = config.provider
            /\ built[1].reads \cap CredentialVars = {}
            /\ \A e2 \in CredentialVariants(env) : get_model(config, e2) = built[1]

\* C3's case: ollama (given in capitals) with an endpoint and a key variable
\* set; the model is built with the placeholder.
C3_Witness ==
    /\ built # NoCall
    /\ api # NoCall
    /\ given = <<"O","L","L","A","M","A">>
    /\ env["OLLAMA_API_BASE"] # None
    /\ env["OLLAMA_API_KEY"] # None
    /\ api[1].value = <<env["OLLAMA_API_BASE"], Ollama, None>>
    /\ built[1].handle.kwargs["api_key"] = Ollama

\* C5: get_model uses HfApiModel exactly for huggingface, with the model
\* identifier and the token only; for the other providers of the closed set
\* it uses OpenAIServerModel with the resolved endpoint and key, and passes
\* the organization exactly when the resolved one is neither None nor empty.
C5_ConstructorChoice ==
    (built # NoCall /\ built[1].raised = NoError) =>
      LET h == built[1].handle
          triple == get_api_config(config, env).value
      IN  /\ (h.ctor = "HfApiModel") <=> (config.provider = Huggingface)
          /\ h.ctor = "HfApiModel" =>
                /\ DOMAIN h.kwargs = { "model_id", "token", "model_kwargs" }
                /\ h.kwargs["model_id"] = config.model
                /\ h.kwargs["token"] = env["HUGGINGFACE_API_TOKEN"]
                /\ DOMAIN h.kwargs["model_kwargs"] = { "model" }
                /\ h.kwargs["model_kwargs"]["model"] = config.model
          /\ h.ctor # "HfApiModel" =>
                /\ h.ctor = "OpenAIServerModel"
                /\ DOMAIN h.kwargs \in { { "model_id", "api_base", "api_key" },
                                         { "model_id", "api_base", "api_key",
                                           "organization" } }
                /\ h.kwargs["model_id"] = config.model
                /\ h.kwargs["api_base"] = triple[1]
                /\ h.kwargs["api_key"] = triple[2]
                /\ ("organization" \in DOMAIN h.kwargs) <=> Truthy(triple[3])
                /\ "organization" \in DOMAIN h.kwargs =>
                      h.kwargs["organization"] = triple[3]

\* C5's case: openai with an empty organization: OpenAIServerModel is built
\* without the organization argument.
C5_Witness ==
    /\ built # NoCall
    /\ config.provider = Openai
    /\ env["OPENAI_ORG_ID"] = <<>>
    /\ env["OPENAI_API_KEY"] # None
    /\ built[1].handle.ctor = "OpenAIServerModel"
    /\ "organization" \notin DOMAIN built[1].handle.kwargs

\* C6: get_model fails in one way only, with the unsupported-provider error
\* of the resolution: it returns a model for every provider of the closed
\* set in every environment, and fails with that error for every other.
C6_OnlyUnsupportedFails ==
    built # NoCall =>
      /\ built[1].raised \in { NoError, UnsupportedProvider }
      /\ config.provider \in Providers =>
            /\ built[1].raised = NoError
            /\ built[1].handle.ctor \in { "HfApiModel", "OpenAIServerModel" }
      /\ config.provider \notin Providers =>
            /\ built[1].raised = UnsupportedProvider
            /\ built[1].handle = NoHandle

\* C6's case: a provider of the closed set whose endpoint and key are unset:
\* the model is built all the same.
C6_Witness ==
    /\ built # NoCall
    /\ config.provider = Groq
    /\ env["GROQ_API_BASE"] = None
    /\ env["GROQ_API_KEY"] = None
    /\ built[1].raised = NoError
    /\ built[1].handle.ctor = "OpenAIServerModel"
    /\ built[1].handle.kwargs["api_key"] = None

----------------------------------------------------------------------------
(* Properties of the startup, checked under Spec.                          *)

\* The selector variable v names a provider outside the closed set.
Unsupported(v) == Truthy(env[v]) /\ lower(env[v]) \notin Providers

ConfigurationTime == { "primary_config", "reason_config", "reasoning_model", "tool_model" }

\* C4: when the provider selected for the primary or for the reasoning agent
\* is outside the closed set, the run goes on through the configuration
\* statements and leaves them only by the unsupported-provider error, which
\* ends it: no agent is constructed, the tool is never invoked, the UI is
\* never launched.  The UI is launched only when both configurations resolve
\* and both models are built.
C4_UnsupportedAbortsStartup ==
    /\ (Unsupported("PRIMARY_AGENT_PROVIDER") \/ Unsupported("REASON_AGENT_PROVIDER")) =>
          /\ pc \in ConfigurationTime \cup { "aborted" }
          /\ ~reasoner.made
          /\ ~primary_agent.made
          /\ ~launched
          /\ invoked = 0
          /\ finished = <<>>
          /\ \A t \in Sessions : inv[t].at = "idle"
    /\ pc \in ConfigurationTime => ENABLED NextStartup
    /\ (pc = "aborted") <=> (raised # NoError)
    /\ raised # NoError =>
          /\ raised = UnsupportedProvider
          /\ Unsupported("PRIMARY_AGENT_PROVIDER") \/ Unsupported("REASON_AGENT_PROVIDER")
          /\ ~ENABLED Next
    /\ launched =>
          /\ get_api_config(primary_config, env).raised = NoError
          /\ get_api_config(reason_config, env).raised = NoError
          /\ reasoning_model.ctor # "none"
          /\ tool_model.ctor # "none"
          /\ reasoner.made
          /\ primary_agent.made

\* C4's case: the reasoning provider resolved and its model was built, the
\* primary provider is unsupported, and the run ended at line 99.
C4_Witness ==
    /\ Unsupported("PRIMARY_AGENT_PROVIDER")
    /\ ~Unsupported("REASON_AGENT_PROVIDER")
    /\ pc = "aborted"
    /\ raised = UnsupportedProvider
    /\ reasoning_model.ctor # "none"
    /\ ~reasoner.made
    /\ ~launched

----------------------------------------------------------------------------
(* Properties of the tool with one user, checked under SpecServe.          *)

\* The frames whose context and prompt are assembled.
Assembled == { "run", "step", "return", "done" }

\* Every frame: those of the sessions and those of the finished calls.
Frames == { inv[t] : t \in Sessions } \cup { finished[i] : i \in DOMAIN finished }

RECURSIVE TextLength(_, _)
\* The length of the first n documents, each but the first after two symbols.
TextLength(docs, n) ==
    IF n = 0 THEN 0
    ELSE TextLength(docs, n - 1) + Len(docs[n].page_content) + (IF n = 1 THEN 0 ELSE 2)

\* C7: the documents of a call are the first three (or all, if fewer) of the
\* store's ranking for the query, and the context placed in the prompt holds
\* the text of each, whole, at its place in that order, with two line breaks
\* between consecutive ones and nothing else.
C7_ContextInSearchOrder ==
    \A f \in Frames : f.at \in Assembled =>
      LET n == Len(f.docs)
          ranked == vectordb[f.user_query]
      IN  /\ n = (IF Len(ranked) < 3 THEN Len(ranked) ELSE 3)
          /\ \A i \in 1..n : f.docs[i] = ranked[i]
          /\ Len(f.context) = TextLength(f.docs, n)
          /\ \A i \in 1..n :
                LET stop == TextLength(f.docs, i)
                    size == Len(f.docs[i].page_content)
                IN  /\ SubSeq(f.context, stop - size + 1, stop) = f.docs[i].page_content
                    /\ i > 1 => /\ f.context[stop - size - 1] = "\n"
                                /\ f.context[stop - size] = "\n"
          /\ SubSeq(f.prompt, 2, 1 + Len(f.context)) = f.context
          /\ Len(f.prompt) = 1 + Len(f.context) + 3 + Len(f.user_query) + 3

\* C7's case: a store of four documents, of which the three ranked first are
\* joined, an empty one in the middle.
C7_Witness ==
    \E f \in Frames :
        /\ f.at = "run"
        /\ Len(vectordb[f.user_query]) = 4
        /\ f.docs = <<Doc2, Doc3, Doc1>>
        /\ f.context = <<"b", "\n", "c", "\n", "\n", "\n", "\n", "a">>

\* C8: a call whose search returned no document still assembles the prompt
\* of the template, with nothing between the context heading and the
\* question, and with the query as given; it enters the reasoning agent's
\* run, once, and returns.
C8_EmptySearchStillAsks ==
    \A t \in Sessions :
      LET f == inv[t]
          tasks == SelectSeq(reasoner.memory, LAMBDA e : e.kind = "task" /\ e.inv = f.id)
      IN  (f.at \in { "run", "step", "return" } /\ f.docs = <<>>) =>
            /\ vectordb[f.user_query] = <<>>
            /\ f.context = <<>>
            /\ f.prompt = PromptHead \o PromptQuestion \o f.user_query \o PromptAnswer
            /\ f.at = "run" => ENABLED RunBegin(t)
            /\ f.at \in { "step", "return" } =>
                  /\ f.runs = 1
                  /\ Len(tasks) = 1
                  /\ tasks[1].text = f.prompt

\* C8's case: a call on an empty store has been answered by the reasoning
\* agent and is about to return.
C8_Witness ==
    \E t \in Sessions :
        /\ inv[t].at = "return"
        /\ inv[t].docs = <<>>
        /\ inv[t].context = <<>>
        /\ inv[t].runs = 1
        /\ inv[t].response = <<inv[t].prompt>>

\* The prompt of the call numbered id.
PromptOf(id) == (CHOOSE f \in Frames : f.id = id).prompt

\* C9: the tool never resets the reasoning agent: its memory holds the
\* prompt of every call that entered run(), in the order of the calls, and
\* each step of call k was taken over the prompts of calls 1..k; a call
\* searches once and enters run() once.
C9_MemoryKeepsEveryPrompt ==
    LET tasks == SelectSeq(reasoner.memory, IsTask)
        ran == { f \in Frames : f.runs > 0 }
    IN  /\ \A f \in Frames : f.runs <= 1 /\ f.searches <= 1
        /\ \A i \in DOMAIN finished :
              /\ finished[i].id = i
              /\ finished[i].runs = 1
              /\ finished[i].searches = 1
              /\ finished[i].response = [k \in 1..i |-> PromptOf(k)]
        /\ Len(tasks) = Cardinality(ran)
        /\ \A k \in DOMAIN tasks :
              /\ tasks[k].inv = k
              /\ tasks[k].text = PromptOf(k)
        /\ \A j \in DOMAIN reasoner.memory :
              LET e == reasoner.memory[j]
              IN  e.kind = "action" => e.saw = [k \in 1..e.inv |-> PromptOf(k)]

\* C9's case: two calls with different queries are done; the answer to the
\* second was given over both prompts.
C9_Witness ==
    /\ Len(finished) = 2
    /\ finished[1].user_query # finished[2].user_query
    /\ finished[2].response = <<finished[1].prompt, finished[2].prompt>>
    /\ Len(SelectSeq(reasoner.memory, IsTask)) = 2

----------------------------------------------------------------------------
(* Properties of the tool with two simultaneous users, checked under       *)
(* SpecConc.                                                               *)

\* The tasks among the first n entries of the reasoning agent's memory.
TasksBefore(n) ==
    LET tasks == SelectSeq(SubSeq(reasoner.memory, 1, n), IsTask)
    IN  [i \in DOMAIN tasks |-> tasks[i].text]

\* What two calls with prompts a and b answer over when one runs after the
\* other: <<what a's answer saw, what b's answer saw>>.
Sequential(a, b) == { << <<a>>, <<a, b>> >>, << <<b, a>>, <<b>> >> }

\* C10: the one reasoning agent is shared and unguarded: a call may enter
\* run() while another call's run is under way, every step is taken over the
\* whole memory as it is then, the prompts of other calls included, and no
\* call's prompt is removed while its run is under way.
C10_SharedUnguarded ==
    /\ \A t \in Sessions :
          (inv[t].at = "run" /\ \E u \in Sessions : inv[u].at = "step") =>
             ENABLED RunBegin(t)
    /\ \A j \in DOMAIN reasoner.memory :
          reasoner.memory[j].kind = "action" =>
             reasoner.memory[j].saw = TasksBefore(j - 1)
    /\ \A t \in Sessions :
          inv[t].at \in { "step", "return" } =>
             \E j \in DOMAIN reasoner.memory :
                 /\ reasoner.memory[j].kind = "task"
                 /\ reasoner.memory[j].inv = inv[t].id
                 /\ reasoner.memory[j].text = inv[t].prompt

\* C10's case: two calls with different prompts ran at the same time, and
\* each was answered over the other's prompt as well as its own, which
\* neither order of running them one after the other gives.
C10_Witness ==
    /\ Len(finished) = 2
    /\ finished[1].prompt # finished[2].prompt
    /\ finished[1].response = <<finished[1].prompt, finished[2].prompt>>
    /\ finished[2].response = <<finished[1].prompt, finished[2].prompt>>
    /\ <<finished[1].response, finished[2].response>>
          \notin Sequential(finished[1].prompt, finished[2].prompt)

====
